---- MODULE Spec2Model ----
(***************************************************************************)
(* Model of argopy/xarray.py: the ArgoAccessor (cast_types, point2profile, *)
(* profile2point) and the local file loaders.                              *)
(*                                                                         *)
(* Integers of the tables are held as sign and magnitude, the magnitude a  *)
(* little-endian sequence of base-10000 limbs, so that the float64         *)
(* arithmetic of uid() (1e4 * wmo + cyc, uid / 1e4) and of Dataset.where() *)
(* can be modelled with its 53-bit rounding, beyond the 32-bit integers of *)
(* the model checker.                                                      *)
(***************************************************************************)
EXTENDS Integers, Sequences, FiniteSets, TLC

(***************************************************************************)
(* Magnitudes: <<>> is 0, limbs are in 0..9999, the last limb is not 0.    *)
(***************************************************************************)
\* The factor 1e4 of uid(); also the limb base of the magnitudes.
E4 == 10000

RECURSIVE MNorm(_)
MNorm(a) ==
  IF a = <<>> THEN <<>>
  ELSE IF a[Len(a)] = 0 THEN MNorm(SubSeq(a, 1, Len(a) - 1))
  ELSE a

RECURSIVE MNat(_)
MNat(n) == IF n = 0 THEN <<>> ELSE <<n % E4>> \o MNat(n \div E4)

RECURSIVE MCmpFrom(_, _, _)
MCmpFrom(a, b, i) ==
  IF i = 0 THEN 0
  ELSE IF a[i] > b[i] THEN 1
  ELSE IF a[i] < b[i] THEN -1
  ELSE MCmpFrom(a, b, i - 1)

\* -1, 0 or 1 as a < b, a = b, a > b
MCmp(a, b) ==
  IF Len(a) > Len(b) THEN 1
  ELSE IF Len(a) < Len(b) THEN -1
  ELSE MCmpFrom(a, b, Len(a))

RECURSIVE MAddC(_, _, _)
MAddC(a, b, carry) ==
  IF a = <<>> /\ b = <<>> THEN (IF carry = 0 THEN <<>> ELSE <<carry>>)
  ELSE LET x == IF a = <<>> THEN 0 ELSE Head(a)
           y == IF b = <<>> THEN 0 ELSE Head(b)
           s == x + y + carry
       IN <<s % E4>> \o MAddC(IF a = <<>> THEN <<>> ELSE Tail(a),
                              IF b = <<>> THEN <<>> ELSE Tail(b),
                              s \div E4)

MAdd(a, b) == MAddC(a, b, 0)

RECURSIVE MSubB(_, _, _)
MSubB(a, b, borrow) ==
  IF a = <<>> THEN <<>>
  ELSE LET y == IF b = <<>> THEN 0 ELSE Head(b)
           d == Head(a) - y - borrow
       IN <<IF d < 0 THEN d + E4 ELSE d>>
          \o MSubB(Tail(a), IF b = <<>> THEN <<>> ELSE Tail(b),
                   IF d < 0 THEN 1 ELSE 0)

\* a - b, for a >= b
MSub(a, b) == MNorm(MSubB(a, b, 0))

RECURSIVE MHalfFrom(_, _, _)
MHalfFrom(a, i, rem) ==
  IF i = 0 THEN <<>>
  ELSE LET v == rem * E4 + a[i]
       IN MHalfFrom(a, i - 1, v % 2) \o <<v \div 2>>

\* floor(a / 2)
MHalf(a) == MNorm(MHalfFrom(a, Len(a), 0))

MOdd(a) == a # <<>> /\ a[1] % 2 = 1

RECURSIVE MShr(_, _)
MShr(a, k) == IF k = 0 THEN a ELSE MShr(MHalf(a), k - 1)

RECURSIVE MShl(_, _)
MShl(a, k) == IF k = 0 THEN a ELSE MShl(MAdd(a, a), k - 1)

\* the number of bits of a: 0 for 0, else floor(log2 a) + 1
RECURSIVE MBits(_)
MBits(a) == IF a = <<>> THEN 0 ELSE 1 + MBits(MHalf(a))

\* a * 1e4 and floor(a / 1e4)
MMulE4(a) == IF a = <<>> THEN <<>> ELSE <<0>> \o a
MDivE4(a) == IF a = <<>> THEN <<>> ELSE Tail(a)
MModE4(a) == IF a = <<>> THEN 0 ELSE Head(a)

(***************************************************************************)
(* float64: an integer is rounded to 53 significant bits, ties to even.    *)
(***************************************************************************)
\* The significand width of numpy's float64.
Mantissa == 53

\* m or m + 1 times 2^k, for the order c (-1, 0, 1) of the remainder and the
\* half of 2^k: above the half, or at the half with m odd, the rounding is up
MRoundUp(m, k, c) ==
  MShl(IF c = 1 \/ (c = 0 /\ MOdd(m)) THEN MAdd(m, <<1>>) ELSE m, k)

\* the rounding of a = m * 2^k + rem to a multiple of 2^k
MRoundAt(a, k, m) ==
  MRoundUp(m, k, MCmp(MSub(a, MShl(m, k)), MShl(<<1>>, k - 1)))

MRound(a, k) == MRoundAt(a, k, MShr(a, k))

F64Bits(a, k) == IF k <= 0 THEN a ELSE MRound(a, k)

F64Mag(a) == F64Bits(a, MBits(a) - Mantissa)

\* fl(hi + r / 1e4) for hi of at least 53 bits: the floats there are integers
\* 2^k apart, and r / 1e4 is a fraction below 1
TruncDivWide(hi, r, k, m) ==
  MRoundUp(m, k,
           IF k = 0 THEN (IF 2 * r > E4 THEN 1 ELSE IF 2 * r = E4 THEN 0 ELSE -1)
           ELSE (IF MCmp(MSub(hi, MShl(m, k)), MShl(<<1>>, k - 1)) >= 0 THEN 1 ELSE -1))

\* int(fl(hi + r / 1e4)) for hi below 53 bits: the floats below hi + 1 are
\* 2^-j apart, and the quotient rounds up to hi + 1 when within half of that
TruncDivNarrow(hi, r, j) ==
  IF j <= 14 /\ (E4 - r) * (2 ^ j) <= E4 THEN MAdd(hi, <<1>>) ELSE hi

TruncDivBits(hi, r, e1) ==
  IF e1 >= Mantissa THEN TruncDivWide(hi, r, e1 - Mantissa, MShr(hi, e1 - Mantissa))
  ELSE TruncDivNarrow(hi, r, Mantissa + 1 - e1)

TruncDivParts(hi, r) == IF r = 0 THEN F64Mag(hi) ELSE TruncDivBits(hi, r, MBits(hi))

TruncDivFloat(a) == TruncDivParts(MDivE4(a), MModE4(a))

\* int(fl(a) / 1e4) for a magnitude a: the float64 quotient, truncated
TruncDivE4Mag(a0) == TruncDivFloat(F64Mag(a0))

(***************************************************************************)
(* Signed integers.                                                        *)
(***************************************************************************)
Z(neg, mag) == [neg |-> neg /\ mag # <<>>, mag |-> mag]
ZInt(n) == IF n < 0 THEN Z(TRUE, MNat(-n)) ELSE Z(FALSE, MNat(n))
ZNeg(x) == Z(~x.neg, x.mag)
ZAdd(x, y) ==
  IF x.neg = y.neg THEN Z(x.neg, MAdd(x.mag, y.mag))
  ELSE IF MCmp(x.mag, y.mag) >= 0 THEN Z(x.neg, MSub(x.mag, y.mag))
  ELSE Z(y.neg, MSub(y.mag, x.mag))
ZSub(x, y) == ZAdd(x, ZNeg(y))
ZLess(x, y) ==
  IF x.neg # y.neg THEN x.neg
  ELSE IF x.neg THEN MCmp(x.mag, y.mag) = 1
  ELSE MCmp(x.mag, y.mag) = -1
ZMulE4(x) == Z(x.neg, MMulE4(x.mag))
\* the float64 nearest to the integer x
F64(x) == Z(x.neg, F64Mag(x.mag))
\* int(x / 1e4) in float64: Python's int() truncates towards zero
ZTruncDivE4(x) == Z(x.neg, TruncDivE4Mag(x.mag))

(***************************************************************************)
(* uid(): the encoder (two arguments) and the decoder (one argument).      *)
(***************************************************************************)
uid_encode(wmo, cyc) == F64(ZAdd(F64(ZMulE4(F64(wmo))), F64(cyc)))

\* lines 129-130: -int(1e4 * int(uid / 1e4) - uid)
uid_cyc(wmo, u) == ZNeg(F64(ZSub(F64(ZMulE4(F64(wmo))), F64(u))))

uid_pair(wmo, u) == <<wmo, uid_cyc(wmo, u)>>

uid_decode(u) == uid_pair(ZTruncDivE4(u), u)

(***************************************************************************)
(* Cells, element types and tables.                                        *)
(*   int cell: a signed integer;  float cell: NaN or Fl(integer value);    *)
(*   datetime cell: NaT or Time(t);  text cell: Txt(its characters);       *)
(*   object cell: a Python str or the float nan, with its str().           *)
(***************************************************************************)
DT(kind, w) == [kind |-> kind, w |-> w]
Int64 == DT("i", 0)
Float64 == DT("f", 0)
Datetime64 == DT("M", 0)
Object == DT("O", 0)
U(w) == DT("U", w)

NaN == [nan |-> TRUE, v |-> ZInt(0)]
Fl(z) == [nan |-> FALSE, v |-> z]
NaT == [nat |-> TRUE, t |-> 0]
Time(t) == [nat |-> FALSE, t |-> t]
Txt(s) == [s |-> s]
ObjStr(s) == [py |-> "str", s |-> s]
ObjNaN == [py |-> "float", s |-> <<"n", "a", "n">>]

\* the integer a numeric cell holds (int64, or a float64 with an integer value)
Num(dtype, cell) == IF dtype.kind = "f" THEN cell.v ELSE cell

Column(dtype, dims, values) == [dtype |-> dtype, dims |-> dims, values |-> values]

\* len(ds['index'])
NRows(ds) == Len(ds.col["index"].values)

\* ds[name] = column: a new variable goes last, an old one keeps its place
SetVar(ds, name, column) ==
  [ds EXCEPT !.data_vars = IF \E k \in 1..Len(@) : @[k] = name THEN @ ELSE Append(@, name),
             !.col = (name :> column) @@ @]

NoTable == [none |-> TRUE]

(***************************************************************************)
(* point2profile(): its helpers.                                           *)
(***************************************************************************)
fillvalue(dtype) ==
  IF dtype.kind = "U" THEN Txt(<<" ">>)
  ELSE IF dtype.kind = "i" THEN ZInt(99999)
  ELSE IF dtype.kind = "M" THEN NaT
  ELSE NaN

\* one cell of np.full(shape, fill, dtype=dtype): the fill as an element of dtype
np_full(fill, dtype) == IF dtype.kind = "O" THEN ObjNaN ELSE fill

\* the column dummy_argo_uid: uid(PLATFORM_NUMBER, CYCLE_NUMBER), row by row
dummy_argo_uid(ds) ==
  LET P == ds.col["PLATFORM_NUMBER"]
      C == ds.col["CYCLE_NUMBER"]
  IN [i \in 1..NRows(ds) |-> uid_encode(Num(P.dtype, P.values[i]), Num(C.dtype, C.values[i]))]

\* np.unique: the distinct values, ascending
RECURSIVE np_unique(_)
np_unique(S) ==
  IF S = {} THEN <<>>
  ELSE LET m == CHOOSE a \in S : \A b \in S \ {a} : ZLess(a, b)
       IN <<m>> \o np_unique(S \ {m})

Range(f) == {f[i] : i \in DOMAIN f}

SetMax(S) == CHOOSE a \in S : \A b \in S : b <= a

\* ds.groupby('dummy_argo_uid').sum()['dummy_argo_counter']: the rows of each uid
GroupSizes(uids) ==
  [u \in Range(uids) |-> Cardinality({i \in DOMAIN uids : uids[i] = u})]

N_LEVELS_of(that) == SetMax(Range(that))
N_PROF_of(uids) == Len(np_unique(Range(uids)))

\* a ratio that leaves the levels out of its divisor
sparsiness_per_profile(rows, nprof, nlevels) == (rows * 100 * 100) \div nprof

\* round(rows * 100 / (N_PROF * N_LEVELS), 2), in hundredths: to the nearest
\* hundredth, a tie to the even one
sparsiness(rows, nprof, nlevels) ==
  LET num == rows * 100 * 100
      den == nprof * nlevels
      q == num \div den
      r2 == 2 * (num % den)
  IN IF r2 > den \/ (r2 = den /\ q % 2 = 1) THEN q + 1 ELSE q

\* the positions, in order, of a set of row positions
RECURSIVE Ascending(_)
Ascending(S) ==
  IF S = {} THEN <<>>
  ELSE LET m == CHOOSE a \in S : \A b \in S : a <= b
       IN <<m>> \o Ascending(S \ {m})

\* ds['X'] == value, for an int64 value: a float64 column compares it as a float
ColEq(column, i, z) ==
  IF column.dtype.kind = "f"
  THEN ~column.values[i].nan /\ column.values[i].v = F64(z)
  ELSE column.values[i] = z

\* ds.where(PLATFORM_NUMBER == wmo, drop=1).where(CYCLE_NUMBER == cyc, drop=1):
\* the rows kept, in the table's order
that_rows(ds, wmo, cyc) ==
  Ascending({i \in 1..NRows(ds) :
               /\ ColEq(ds.col["PLATFORM_NUMBER"], i, wmo)
               /\ ColEq(ds.col["CYCLE_NUMBER"], i, cyc)})

\* Dataset.where() promotes an integer column to float64; writing the values
\* into the new integer array converts them back
where_values(column, i) ==
  IF column.dtype.kind = "i" THEN F64(column.values[i]) ELSE column.values[i]

\* an int64 value stored into a column of dtype
Stored(dtype, z) == IF dtype.kind = "f" THEN Fl(F64(z)) ELSE z

\* the order of two cells of one coordinate column (floats, datetimes, integers)
CellLeq(dtype, a, b) ==
  IF dtype.kind = "f" THEN (b.nan \/ (~a.nan /\ ~ZLess(b.v, a.v)))
  ELSE IF dtype.kind = "M" THEN (b.nat \/ (~a.nat /\ a.t <= b.t))
  ELSE ~ZLess(b, a)

\* np.unique(values)[0]: the least of the values (a NaN or NaT sorts last)
FirstUnique(dtype, S) == CHOOSE a \in S : \A b \in S : CellLeq(dtype, a, b)

\* the place of a variable name in np.sort's order
NameRank(name) ==
  CASE name = "CYCLE_NUMBER" -> 1
    [] name = "DIRECTION" -> 2
    [] name = "PLATFORM_NUMBER" -> 3
    [] name = "PSAL_QC" -> 4
    [] name = "TEMP" -> 5
    [] name = "TEMP_QC" -> 6
    [] name = "dummy_argo_counter" -> 7
    [] name = "dummy_argo_uid" -> 8

RECURSIVE np_sort(_)
np_sort(S) ==
  IF S = {} THEN <<>>
  ELSE LET m == CHOOSE a \in S : \A b \in S : NameRank(a) <= NameRank(b)
       IN <<m>> \o np_sort(S \ {m})

\* lines 144-168: the new dataset, every cell the fill value of its column;
\* the coordinates, and PLATFORM_NUMBER and CYCLE_NUMBER, have no N_LEVELS
new_empty(ds, nprof, nlevels) ==
  [name \in {n \in Range(ds.data_vars) \cup Range(ds.coords) :
               n # "index" /\ ds.col[n].dims = <<"index">>} |->
     LET dtype == ds.col[name].dtype
         fill == np_full(fillvalue(dtype), dtype)
     IN IF name \in Range(ds.coords) \/ name \in {"PLATFORM_NUMBER", "CYCLE_NUMBER"}
        THEN Column(dtype, <<"N_PROF">>, [p \in 1..nprof |-> fill])
        ELSE Column(dtype, <<"N_PROF", "N_LEVELS">>,
                    [p \in 1..nprof |-> [l \in 1..nlevels |-> fill]])]

\* lines 171-187: one column of the new dataset, filled profile by profile.
\* ids[p] is uid(dummy_argo_uid) of the p-th distinct uid, rows1[p] the rows
\* the first loop finds for it and rows2[p] the rows the second loop finds
new_filled(ds, empty, ids, rows1, rows2, name) ==
  IF name = "PLATFORM_NUMBER"
  THEN [empty[name] EXCEPT !.values = [p \in DOMAIN ids |-> Stored(empty[name].dtype, ids[p][1])]]
  ELSE IF name = "CYCLE_NUMBER"
  THEN [empty[name] EXCEPT !.values = [p \in DOMAIN ids |-> Stored(empty[name].dtype, ids[p][2])]]
  ELSE IF name \in {"latitude", "longitude", "time"}
  THEN [empty[name] EXCEPT !.values =
          [p \in DOMAIN ids |->
             FirstUnique(ds.col[name].dtype,
                         {ds.col[name].values[i] : i \in Range(rows1[p])})]]
  ELSE IF name \in Range(ds.data_vars)
  THEN [empty[name] EXCEPT !.values =
          [p \in DOMAIN ids |->
             [l \in DOMAIN empty[name].values[p] |->
                IF l <= Len(rows2[p]) THEN where_values(ds.col[name], rows2[p][l])
                ELSE empty[name].values[p][l]]]]
  ELSE empty[name]

\* lines 189-192: the bookkeeping columns dropped, the data variables sorted by
\* name, the attributes copied and sparsiness attached
new_ds_of(ds, filled, N_PROF, N_LEVELS) ==
  [dims |-> [d \in {"N_PROF", "N_LEVELS"} |-> IF d = "N_PROF" THEN N_PROF ELSE N_LEVELS],
   data_vars |-> np_sort(Range(ds.data_vars) \ {"dummy_argo_counter", "dummy_argo_uid"}),
   coords |-> SelectSeq(ds.coords, LAMBDA c : c # "index"),
   col |-> [name \in DOMAIN filled \ {"dummy_argo_counter", "dummy_argo_uid"} |-> filled[name]],
   attrs |-> ("sparsiness" :> sparsiness(NRows(ds), N_PROF, N_LEVELS)) @@ ds.attrs]

\* the value PLATFORM_NUMBER or CYCLE_NUMBER of the new dataset reads back
stored_id(ds, name, z) == Num(ds.col[name].dtype, Stored(ds.col[name].dtype, z))

\* lines 166-192, the rows of the two loops known
p2p_fill(ds, empty, ids, rows1, rows2, N_PROF, N_LEVELS) ==
  IF \E p \in DOMAIN rows1 : rows1[p] = <<>>
  THEN \* line 177: np.unique(...)[0] of no rows
       [exc |-> "IndexError", obj |-> ds, value |-> NoTable]
  ELSE IF \E p \in DOMAIN rows2 : Len(rows2[p]) > N_LEVELS
  THEN \* line 187: more rows than the levels 0..N-1 the new dataset has
       [exc |-> "KeyError", obj |-> ds, value |-> NoTable]
  ELSE [exc |-> "none", obj |-> ds,
        value |-> new_ds_of(ds, [name \in DOMAIN empty |->
                                   new_filled(ds, empty, ids, rows1, rows2, name)],
                            N_PROF, N_LEVELS)]

\* lines 144-187, the decoded uids known
p2p_loops(ds, ids, N_PROF, N_LEVELS) ==
  p2p_fill(ds, new_empty(ds, N_PROF, N_LEVELS), ids,
           [p \in DOMAIN ids |-> that_rows(ds, ids[p][1], ids[p][2])],
           [p \in DOMAIN ids |->
              that_rows(ds, stored_id(ds, "PLATFORM_NUMBER", ids[p][1]),
                        stored_id(ds, "CYCLE_NUMBER", ids[p][2]))],
           N_PROF, N_LEVELS)

\* lines 137-171, the distinct uids known
p2p_groups(ds, unique, N_PROF, N_LEVELS) ==
  IF ~(N_PROF * N_LEVELS >= NRows(ds))
  THEN [exc |-> "AssertionError", obj |-> ds, value |-> NoTable]
  ELSE p2p_loops(ds, [p \in DOMAIN unique |-> uid_decode(unique[p])], N_PROF, N_LEVELS)

\* lines 135-138, the uid of every row known
p2p_uids(ds1, uids) ==
  p2p_groups(SetVar(ds1, "dummy_argo_uid", Column(Int64, <<"index">>, uids)),
             np_unique(Range(uids)), N_PROF_of(uids), N_LEVELS_of(GroupSizes(uids)))

\* lines 133-135: np.vectorize(int) refuses an empty array, after line 133 has run
p2p_counter(ds1) ==
  IF NRows(ds1) = 0 THEN [exc |-> "ValueError", obj |-> ds1, value |-> NoTable]
  ELSE p2p_uids(ds1, dummy_argo_uid(ds1))

\* point2profile() past its guard: the exception it ends with ("none": it
\* returns), the wrapped table as it leaves it, and the table it returns
point2profile_body(ds0) ==
  p2p_counter(SetVar(ds0, "dummy_argo_counter",
                     Column(ds0.col["index"].dtype, <<"index">>,
                            [i \in 1..NRows(ds0) |-> ZInt(1)])))

(***************************************************************************)
(* cast_types(): its helpers.                                              *)
(***************************************************************************)
\* "QC" in v, for the variable names of the tables
IsQC(v) == v \in {"TEMP_QC", "PSAL_QC"}

Digits == <<"0", "1", "2", "3", "4", "5", "6", "7", "8", "9">>
IsDigit(c) == \E d \in 1..Len(Digits) : Digits[d] = c
DigitOf(c) == (CHOOSE d \in 1..Len(Digits) : Digits[d] = c) - 1

RECURSIVE Strip(_)
Strip(s) ==
  IF s = <<>> THEN s
  ELSE IF Head(s) = " " THEN Strip(Tail(s))
  ELSE IF s[Len(s)] = " " THEN Strip(SubSeq(s, 1, Len(s) - 1))
  ELSE s

RECURSIVE Decimal(_)
Decimal(s) == IF s = <<>> THEN 0 ELSE 10 * Decimal(SubSeq(s, 1, Len(s) - 1)) + DigitOf(s[Len(s)])

\* int(s) of a text: spaces around the digits are ignored
IntParses(s) == Strip(s) # <<>> /\ \A k \in 1..Len(Strip(s)) : IsDigit(Strip(s)[k])
IntOf(s) == ZInt(Decimal(Strip(s)))

\* str(x) of a cell
StrOf(dtype, cell) == cell.s

\* values.astype(str): the text of every cell, as wide as the longest
astype_str(column) ==
  LET texts == [i \in DOMAIN column.values |-> StrOf(column.dtype, column.values[i])]
      w == IF texts = <<>> THEN 1 ELSE SetMax({Len(texts[i]) : i \in DOMAIN texts} \cup {1})
  IN [column EXCEPT !.dtype = U(w), !.values = [i \in DOMAIN texts |-> Txt(texts[i])]]

\* whether values.astype(int) raises ValueError: a text that is no integer
astype_int_fails(column) ==
  /\ column.dtype.kind \in {"U", "O"}
  /\ \E i \in DOMAIN column.values :
       \/ ~IntParses(StrOf(column.dtype, column.values[i]))
       \/ (column.dtype.kind = "O" /\ column.values[i].py = "float")

\* values.astype(int)
astype_int(column) ==
  [column EXCEPT !.dtype = Int64,
                 !.values = [i \in DOMAIN column.values |->
                               IF column.dtype.kind \in {"U", "O"}
                               THEN IntOf(StrOf(column.dtype, column.values[i]))
                               ELSE Num(column.dtype, column.values[i])]]

\* cast_this(da, type): the column cast, or left as it is when the cast raises
\* ValueError (which is printed)
cast_this_fails(column, type) == type = "int" /\ astype_int_fails(column)
cast_this(column, type) ==
  IF cast_this_fails(column, type) THEN column
  ELSE IF type = "int" THEN astype_int(column)
  ELSE astype_str(column)

\* ds[v].loc[dict(index=(ds[v] == old))] = new
Replace(column, old, new) ==
  [column EXCEPT !.values = [i \in DOMAIN column.values |->
                                IF column.values[i] = old THEN new ELSE column.values[i]]]

\* lines 68-79: a QC column up to the call of cast_ds
qc_text(column) ==
  LET c1 == IF column.dtype = Object THEN cast_this(column, "str") ELSE column
  IN IF c1.dtype = U(3)
     THEN Replace(Replace(c1, Txt(<<" ", " ", " ">>), Txt(<<"0">>)), Txt(<<"n", "a", "n">>), Txt(<<"0">>))
     ELSE c1

\* line 81 calls cast_ds, a name that is defined nowhere: NameError
cast_ds_raises(column) == (IF column.dtype = Object THEN cast_this(column, "str") ELSE column).dtype = U(3)

\* lines 83-85
qc_blank(column) ==
  IF column.dtype = U(1) THEN Replace(column, Txt(<<" ">>), Txt(<<"0">>)) ELSE column

\* lines 90-96: the columns cast by name
named_cast(v, column) ==
  IF v = "PLATFORM_NUMBER" /\ column.dtype = Float64 THEN cast_this(column, "int")
  ELSE IF v \in {"DATA_MODE", "DIRECTION"} /\ column.dtype = Object THEN cast_this(column, "str")
  ELSE column

\* the body of the loop for the data variables from the k-th on: the exception
\* it ends with, the table, and the columns whose failed cast was printed
RECURSIVE cast_loop(_, _, _)
cast_loop(ds, k, printed) ==
  IF k > Len(ds.data_vars) THEN [exc |-> "none", obj |-> ds, printed |-> printed]
  ELSE LET v == ds.data_vars[k]
           column == ds.col[v]
       IN IF IsQC(v)
          THEN IF cast_ds_raises(column)
               THEN [exc |-> "NameError",
                     obj |-> [ds EXCEPT !.col[v] = qc_text(column)],
                     printed |-> printed]
               ELSE LET c2 == qc_blank(qc_text(column))
                        c3 == named_cast(v, cast_this(c2, "int"))
                    IN cast_loop([ds EXCEPT !.col[v] = c3], k + 1,
                                 IF cast_this_fails(c2, "int") THEN Append(printed, v)
                                 ELSE printed)
          ELSE cast_loop([ds EXCEPT !.col[v] = named_cast(v, column)], k + 1, printed)

(***************************************************************************)
(* The local loaders.                                                      *)
(***************************************************************************)
_dac ==
  ("KM" :> "kma") @@ ("IF" :> "coriolis") @@ ("AO" :> "aoml") @@ ("CS" :> "csiro")
  @@ ("KO" :> "kordi") @@ ("JA" :> "jma") @@ ("HZ" :> "csio") @@ ("IN" :> "incois")
  @@ ("NM" :> "nmdis") @@ ("ME" :> "meds") @@ ("BO" :> "bodc")

\* os.path.join of a root and of relative parts
RECURSIVE os_path_join(_)
os_path_join(parts) ==
  IF Len(parts) = 1 THEN parts[1]
  ELSE os_path_join(SubSeq(parts, 1, Len(parts) - 1)) \o "/" \o parts[Len(parts)]

\* os.path.join(root, institute, str(wmo), "%i_prof.nc" % wmo), wmo an int
doifile(argo_root_path, institute, wmo) ==
  os_path_join(<<argo_root_path, institute, ToString(wmo), ToString(wmo) \o "_prof.nc">>)

\* os.path.isfile in a file system: path -> "netcdf", "text" (a file that is
\* no NetCDF file) or "directory"
isfile(files, file_path) == file_path \in DOMAIN files /\ files[file_path] # "directory"

\* _load_nc: the outcome of the call
_load_nc(files, file_path) ==
  IF isfile(files, file_path)
  THEN IF files[file_path] = "netcdf"
       THEN [exc |-> "none", path |-> file_path]
       ELSE \* xr.open_dataset refuses a file that is no NetCDF file
            [exc |-> "OSError", path |-> file_path]
  ELSE [exc |-> "NetCDF4FileNotFoundError", path |-> file_path]

(***************************************************************************)
(* The state: the accessor (the table it wraps and its recorded shape),    *)
(* the outcome of the last call, and the loader's file system.             *)
(***************************************************************************)
VARIABLES _obj, _type, ret, fs

vars == <<_obj, _type, ret, fs>>

\* rows of a point table, rows of a table given to cast_types, longest
\* profile and number of profiles of a profile table
MaxRows == 3
MaxCastRows == 2
MaxLevels == 2
MaxProf == 2

\* a WMO number past the float64 range of uid(): 1e4 * 10^12 > 2^53
BigWmo == Z(FALSE, <<0, 0, 0, 1>>)
Platforms == {ZInt(1), BigWmo}
Cycles == {ZInt(0), ZInt(1)}

\* a point table: its (PLATFORM_NUMBER, CYCLE_NUMBER) rows, its QC column and
\* the element types of three columns
PointTable(pc, qc, qcdtype, pdtype, ddtype) ==
  LET n == Len(pc)
      rows == 1..n
  IN [dims |-> [d \in {"index"} |-> n],
      data_vars |-> <<"TEMP_QC", "PLATFORM_NUMBER", "CYCLE_NUMBER", "TEMP", "DIRECTION">>,
      coords |-> <<"index", "latitude", "longitude", "time">>,
      col |-> [TEMP_QC |-> Column(qcdtype, <<"index">>, qc),
               PLATFORM_NUMBER |->
                 Column(pdtype, <<"index">>,
                        [i \in rows |-> IF pdtype = Float64 THEN Fl(pc[i][1]) ELSE pc[i][1]]),
               CYCLE_NUMBER |-> Column(Int64, <<"index">>, [i \in rows |-> pc[i][2]]),
               TEMP |-> Column(Float64, <<"index">>, [i \in rows |-> Fl(ZInt(10 + i))]),
               DIRECTION |->
                 Column(ddtype, <<"index">>,
                        [i \in rows |-> IF ddtype = Object THEN ObjStr(<<"A">>) ELSE Txt(<<"A">>)]),
               index |-> Column(Int64, <<"index">>, [i \in rows |-> ZInt(i - 1)]),
               latitude |-> Column(Float64, <<"index">>, [i \in rows |-> Fl(ZInt(50 - i))]),
               longitude |-> Column(Float64, <<"index">>, [i \in rows |-> Fl(ZInt(0))]),
               time |-> Column(Datetime64, <<"index">>, [i \in rows |-> Time(i)])],
      attrs |-> [Conventions |-> "Argo"]]

\* the tables given to point2profile: every choice of float and cycle per row
ReshapeTables ==
  {PointTable(pc, [i \in DOMAIN pc |-> ZInt(1)], Int64, Int64, U(1)) :
     pc \in UNION {[1..n -> Platforms \X Cycles] : n \in 0..MaxRows}}

QCCells(dtype) ==
  IF dtype = Object THEN {ObjStr(<<"1">>), ObjStr(<<" ">>), ObjNaN}
  ELSE IF dtype = U(3) THEN {Txt(<<"1">>), Txt(<<"n", "a", "n">>), Txt(<<" ", " ", " ">>)}
  ELSE IF dtype = U(1) THEN {Txt(<<"1">>), Txt(<<" ">>), Txt(<<"A">>)}
  ELSE {ZInt(1), ZInt(4)}

\* the tables given to cast_types: every element type and content of the QC
\* column, PLATFORM_NUMBER as integers or floats, DIRECTION as text or objects
OneQCTables ==
  UNION {{PointTable([i \in 1..n |-> <<ZInt(1), ZInt(0)>>], qc, qcdtype, types[1], types[2]) :
            qc \in [1..n -> QCCells(qcdtype)]} :
         n \in 0..MaxCastRows, qcdtype \in {Object, U(3), U(1), Int64},
         types \in {<<Int64, U(1)>>, <<Float64, Object>>}}

\* the same tables with a second QC column, of 3-character text
CastTables ==
  OneQCTables \cup
  {SetVar(t, "PSAL_QC",
          Column(U(3), <<"index">>, [i \in 1..NRows(t) |-> Txt(<<"n", "a", "n">>)])) :
     t \in OneQCTables}

\* a profile table: TEMP by profile and level, the levels past a profile's
\* last measurement holding NaN
ProfileTable(temp) ==
  [dims |-> [d \in {"N_PROF", "N_LEVELS"} |-> IF d = "N_PROF" THEN Len(temp) ELSE Len(temp[1])],
   data_vars |-> <<"CYCLE_NUMBER", "PLATFORM_NUMBER", "TEMP">>,
   coords |-> <<"latitude", "longitude", "time">>,
   col |-> [CYCLE_NUMBER |-> Column(Int64, <<"N_PROF">>, [p \in DOMAIN temp |-> ZInt(p)]),
            PLATFORM_NUMBER |-> Column(Int64, <<"N_PROF">>, [p \in DOMAIN temp |-> ZInt(1)]),
            TEMP |-> Column(Float64, <<"N_PROF", "N_LEVELS">>, temp),
            latitude |-> Column(Float64, <<"N_PROF">>, [p \in DOMAIN temp |-> Fl(ZInt(50 - p))]),
            longitude |-> Column(Float64, <<"N_PROF">>, [p \in DOMAIN temp |-> Fl(ZInt(0))]),
            time |-> Column(Datetime64, <<"N_PROF">>, [p \in DOMAIN temp |-> Time(p)])],
   attrs |-> [Conventions |-> "Argo"]]

ProfileTables ==
  UNION {{ProfileTable([p \in 1..np |->
                          [l \in 1..nl |-> IF l <= count[p] THEN Fl(ZInt(10 + l)) ELSE NaN]]) :
            count \in [1..np -> 0..nl]} :
         np \in 1..MaxProf, nl \in 1..MaxLevels}

\* ArgoAccessor.__init__: the shape recorded for a table
init_type(xarray_obj) ==
  IF "N_PROF" \in DOMAIN xarray_obj.dims THEN "profile"
  ELSE IF "index" \in DOMAIN xarray_obj.dims THEN "point"
  ELSE "InvalidDatasetStructure"

Result(op, exc, kind, value, arg, printed) ==
  [op |-> op, exc |-> exc, kind |-> kind, value |-> value, arg |-> arg, printed |-> printed]

Init ==
  /\ _obj \in ReshapeTables \cup CastTables \cup ProfileTables
  /\ _type = init_type(_obj)
  /\ ret = Result("__init__", "none", "None", NoTable, NoTable, <<>>)
  /\ fs = <<>>

cast_types_refuses == _type # "point"
point2profile_refuses == _type # "point"
\* a guard turned around: profile2point refusing the profile tables
profile2point_refuses_profiles == _type = "profile"
profile2point_refuses == _type # "profile"

Raise(op, exc) == Result(op, exc, "raise", NoTable, _obj, <<>>)

cast_types ==
  IF cast_types_refuses
  THEN /\ ret' = Raise("cast_types", "InvalidDatasetStructure")
       /\ UNCHANGED <<_obj, _type, fs>>
  ELSE LET r == cast_loop(_obj, 1, <<>>)
       IN /\ _obj' = r.obj
          /\ ret' = IF r.exc = "none"
                    THEN Result("cast_types", "none", "Dataset", r.obj, _obj, r.printed)
                    ELSE Result("cast_types", r.exc, "raise", NoTable, _obj, r.printed)
          /\ UNCHANGED <<_type, fs>>

point2profile ==
  IF point2profile_refuses
  THEN /\ ret' = Raise("point2profile", "InvalidDatasetStructure")
       /\ UNCHANGED <<_obj, _type, fs>>
  ELSE LET r == point2profile_body(_obj)
       IN /\ _obj' = r.obj
          /\ _type' = IF r.exc = "none" THEN "profile" ELSE _type
          /\ ret' = IF r.exc = "none"
                    THEN Result("point2profile", "none", "Dataset", r.value, _obj, <<>>)
                    ELSE Result("point2profile", r.exc, "raise", NoTable, _obj, <<>>)
          /\ UNCHANGED fs

profile2point ==
  IF profile2point_refuses
  THEN /\ ret' = Raise("profile2point", "InvalidDatasetStructure")
       /\ UNCHANGED <<_obj, _type, fs>>
  ELSE \* line 202: return None
       /\ ret' = Result("profile2point", "none", "None", NoTable, _obj, <<>>)
       /\ UNCHANGED <<_obj, _type, fs>>

Next == cast_types \/ point2profile \/ profile2point

Spec == Init /\ [][Next]_vars

(***************************************************************************)
(* The loaders: a file system and the calls of load_from_inst_code and     *)
(* load_from_inst on it.                                                   *)
(***************************************************************************)
\* the float ids asked for
MaxWmo == 2

RootPath == "/data"
Institutes == {"coriolis", "aoml"}
InstituteCodes == {"IF", "AO", "XX"}
FileKinds == {"netcdf", "text", "directory"}
Paths == {doifile(RootPath, institute, wmo) : institute \in Institutes, wmo \in 1..MaxWmo}
FileSystems == UNION {[S -> FileKinds] : S \in SUBSET Paths}

LoaderInit ==
  /\ fs \in FileSystems
  /\ ret = Result("__init__", "none", "None", NoTable, NoTable, <<>>)
  /\ _obj = NoTable
  /\ _type = "none"

\* the outcome of a load as the result of the call
Loaded(op, r, arg) ==
  Result(op, r.exc, IF r.exc = "none" THEN "Dataset" ELSE "raise", r.path, arg, <<>>)

load_from_inst_code ==
  \E institute_code \in InstituteCodes, wmo \in 1..MaxWmo :
    /\ ret' = IF institute_code \in DOMAIN _dac
              THEN Loaded("load_from_inst_code",
                          _load_nc(fs, doifile(RootPath, _dac[institute_code], wmo)),
                          <<institute_code, wmo>>)
              ELSE \* line 251: self._dac[institute_code] of an unknown code
                   Result("load_from_inst_code", "KeyError", "raise", "",
                          <<institute_code, wmo>>, <<>>)
    /\ UNCHANGED <<_obj, _type, fs>>

load_from_inst ==
  \E institute \in Institutes, wmo \in 1..MaxWmo :
    /\ ret' = Loaded("load_from_inst", _load_nc(fs, doifile(RootPath, institute, wmo)),
                     <<institute, wmo>>)
    /\ UNCHANGED <<_obj, _type, fs>>

LoaderNext == load_from_inst_code \/ load_from_inst

SpecLoader == LoaderInit /\ [][LoaderNext]_vars

(***************************************************************************)
(* uid(): a (PLATFORM_NUMBER, CYCLE_NUMBER) pair encoded, the uid decoded. *)
(***************************************************************************)
MaxUidWmo == 3
MaxUidCycle == 3

UidPlatforms ==
  {ZInt(k) : k \in 0..MaxUidWmo} \cup {ZAdd(BigWmo, ZInt(k)) : k \in 0..MaxUidWmo}
UidCycles == {ZInt(k) : k \in 0..MaxUidCycle} \cup {ZInt(E4 - 1)}

UidInit ==
  /\ _obj \in UidPlatforms \X UidCycles
  /\ ret = Result("__init__", "none", "None", NoTable, NoTable, <<>>)
  /\ _type = "none"
  /\ fs = <<>>

\* line 135: uid(PLATFORM_NUMBER, CYCLE_NUMBER)
uid_encodes ==
  /\ ret.op = "__init__"
  /\ ret' = Result("uid", "none", "int", uid_encode(_obj[1], _obj[2]), _obj, <<>>)
  /\ UNCHANGED <<_obj, _type, fs>>

\* line 172: uid(dummy_argo_uid)
uid_decodes ==
  /\ ret.op = "uid" /\ ret.kind = "int"
  /\ ret' = Result("uid", "none", "pair", uid_decode(ret.value), ret.arg, <<>>)
  /\ UNCHANGED <<_obj, _type, fs>>

UidNext == uid_encodes \/ uid_decodes

SpecUid == UidInit /\ [][UidNext]_vars

(***************************************************************************)
(* The shape point2profile() computes, for tables of any number of rows:   *)
(* the table is its groups of rows by uid, sizes[k] rows in each of        *)
(* counts[k] groups.                                                       *)
(***************************************************************************)
MaxRuns == 2
MaxGroup == 3
MaxCount == 2

\* a long profile, and a large number of profiles
BigGroup == 4 * E4 + 1
BigCount == 4 * E4
\* the largest table, and the largest integer of the arithmetic
RowCap == 10 * E4
MaxInt == (2 ^ 30 - 1) + 2 ^ 30

RECURSIVE RunProfiles(_, _)
RunProfiles(that, k) == IF k = 0 THEN 0 ELSE that.counts[k] + RunProfiles(that, k - 1)

RECURSIVE RunRows(_, _)
RunRows(that, k) ==
  IF k = 0 THEN 0 ELSE that.sizes[k] * that.counts[k] + RunRows(that, k - 1)

GroupedTables ==
  {that \in UNION {[sizes : [1..r -> 1..MaxGroup \cup {BigGroup}],
                    counts : [1..r -> 1..MaxCount \cup {BigCount}]] : r \in 1..MaxRuns} :
     /\ \A k \in DOMAIN that.sizes :
          that.sizes[k] <= RowCap \div (Len(that.sizes) * that.counts[k])
     /\ RunProfiles(that, Len(that.counts)) <= MaxInt \div N_LEVELS_of(that.sizes)}

SparseInit ==
  /\ _obj \in GroupedTables
  /\ ret = Result("__init__", "none", "None", NoTable, NoTable, <<>>)
  /\ _type = "point"
  /\ fs = <<>>

\* lines 137-140 and 191-192, by the sizes of the groups
shape_of(rows, N_PROF, N_LEVELS) ==
  IF ~(N_PROF * N_LEVELS >= rows)
  THEN Result("point2profile", "AssertionError", "raise", NoTable, _obj, <<>>)
  ELSE Result("point2profile", "none", "Dataset",
              [rows |-> rows, N_PROF |-> N_PROF, N_LEVELS |-> N_LEVELS,
               sparsiness |-> sparsiness(rows, N_PROF, N_LEVELS)],
              _obj, <<>>)

point2profile_shape ==
  /\ _type = "point"
  /\ ret' = shape_of(RunRows(_obj, Len(_obj.sizes)), RunProfiles(_obj, Len(_obj.counts)),
                     N_LEVELS_of(_obj.sizes))
  /\ _type' = IF ret'.exc = "none" THEN "profile" ELSE _type
  /\ UNCHANGED <<_obj, fs>>

SparseNext == point2profile_shape

SpecSparse == SparseInit /\ [][SparseNext]_vars

(***************************************************************************)
(* The properties.                                                         *)
(***************************************************************************)

\* C1: for a point table of at least one row whose rows carry
\* PLATFORM_NUMBER >= 0 and 0 <= CYCLE_NUMBER < 10000, point2profile() returns
\* a table in which every input row lies in exactly one (profile, level) cell:
\* the j-th row of the rows sharing its (PLATFORM_NUMBER, CYCLE_NUMBER) lies
\* at level j of the profile of that pair, with its value in every measurement
\* column, and the cells past the rows of a profile hold the fill value of the
\* column's element type.
C1_RowsPlaced ==
  LET t == ret.arg
      out == ret.value
      P(i) == Num(t.col["PLATFORM_NUMBER"].dtype, t.col["PLATFORM_NUMBER"].values[i])
      C(i) == Num(t.col["CYCLE_NUMBER"].dtype, t.col["CYCLE_NUMBER"].values[i])
      group(i) == {k \in 1..NRows(t) : P(k) = P(i) /\ C(k) = C(i)}
      level(i) == Cardinality({k \in group(i) : k < i}) + 1
      measured == Range(t.data_vars) \ {"PLATFORM_NUMBER", "CYCLE_NUMBER"}
      profiles == 1..out.dims["N_PROF"]
      levels == 1..out.dims["N_LEVELS"]
      of(p, i) ==
        /\ Num(out.col["PLATFORM_NUMBER"].dtype, out.col["PLATFORM_NUMBER"].values[p]) = P(i)
        /\ Num(out.col["CYCLE_NUMBER"].dtype, out.col["CYCLE_NUMBER"].values[p]) = C(i)
  IN (/\ ret.op = "point2profile"
      /\ ret.exc # "InvalidDatasetStructure"
      /\ NRows(t) >= 1
      /\ \A i \in 1..NRows(t) : ~P(i).neg /\ ~C(i).neg /\ ZLess(C(i), ZInt(E4)))
     => /\ ret.exc = "none"
        /\ \A i \in 1..NRows(t) :
             /\ Cardinality({p \in profiles : of(p, i)}) = 1
             /\ level(i) \in levels
             /\ Cardinality({c \in profiles \X levels :
                               out.col["TEMP"].values[c[1]][c[2]] = t.col["TEMP"].values[i]}) = 1
             /\ \A p \in profiles :
                  of(p, i) =>
                    \A v \in measured :
                      /\ out.col[v].values[p][level(i)] = t.col[v].values[i]
                      /\ \A l \in levels :
                           (l > Cardinality(group(i)) /\ t.col[v].dtype.kind \in {"U", "i", "M", "f"})
                             => out.col[v].values[p][l] = fillvalue(t.col[v].dtype)

\* C2: point2profile() or cast_types() called with the recorded shape
\* 'profile', and profile2point() called with the recorded shape 'point', end
\* with InvalidDatasetStructure and return no table.
C2_MismatchRefused ==
  [][(\/ (_type = "profile" /\ ret'.op \in {"point2profile", "cast_types"})
      \/ (_type = "point" /\ ret'.op = "profile2point"))
     => (ret'.exc = "InvalidDatasetStructure" /\ ret'.kind = "raise" /\ ret'.value = NoTable)]_vars

\* C2, its case: point2profile() has refused an accessor of shape 'profile'
C2_Refused ==
  ret.op = "point2profile" /\ ret.exc = "InvalidDatasetStructure" /\ _type = "profile"

C4_UidRoundTrips ==
  /\ (ret.op = "uid" /\ ret.kind = "pair") => ret.value = ret.arg
  /\ (ret.op = "uid" /\ ret.kind = "int")
       => \A q \in UidPlatforms \X UidCycles :
            uid_encode(q[1], q[2]) = ret.value => q = ret.arg

\* C5: profile2point() on a profile table returns a point table with one row
\* for each cell that holds no fill value, the coordinates of the cell's
\* profile on that row.
C5_ProfilesBecomePoints ==
  LET t == ret.arg
      out == ret.value
      real == {c \in (1..t.dims["N_PROF"]) \X (1..t.dims["N_LEVELS"]) :
                 ~t.col["TEMP"].values[c[1]][c[2]].nan}
  IN (ret.op = "profile2point" /\ ret.exc = "none" /\ "N_PROF" \in DOMAIN t.dims)
     => /\ ret.kind = "Dataset"
        /\ DOMAIN out.dims = {"index"}
        /\ out.dims["index"] = Cardinality(real)
        /\ \A c \in real :
             \E r \in 1..out.dims["index"] :
               /\ out.col["TEMP"].values[r] = t.col["TEMP"].values[c[1]][c[2]]
               /\ \A co \in Range(t.coords) :
                    out.col[co].values[r] = t.col[co].values[c[1]]

\* C6: cast_types() on a point table of at least one row whose QC column
\* TEMP_QC is 3-character text returns, the column as integers: 0 for a cell of three spaces or of
\* "nan", the value of its digit for any other cell.
C6_WideQCBecomesIntegers ==
  LET before == ret.arg.col["TEMP_QC"]
      after == ret.value.col["TEMP_QC"]
  IN (/\ ret.op = "cast_types"
      /\ ret.exc # "InvalidDatasetStructure"
      /\ NRows(ret.arg) >= 1
      /\ before.dtype = U(3))
     => /\ ret.exc = "none"
        /\ after.dtype = Int64
        /\ \A i \in DOMAIN before.values :
             after.values[i] =
               IF before.values[i].s \in {<<" ", " ", " ">>, <<"n", "a", "n">>} THEN ZInt(0)
               ELSE IntOf(before.values[i].s)

\* C7: a cast that fails is not fatal: when the conversion of a column has
\* failed, cast_types() returns the table, the column as it was before that
\* conversion and every other column processed by its rule.
C7_FailedCastNotFatal ==
  (ret.op = "cast_types" /\ ret.exc # "InvalidDatasetStructure" /\ ret.printed # <<>>)
  => /\ ret.exc = "none"
     /\ \A v \in Range(ret.printed) :
          ret.value.col[v] = named_cast(v, qc_blank(qc_text(ret.arg.col[v])))
     /\ \A v \in Range(ret.arg.data_vars) \ Range(ret.printed) :
          ret.value.col[v] =
            IF IsQC(v) THEN named_cast(v, astype_int(qc_blank(qc_text(ret.arg.col[v]))))
            ELSE named_cast(v, ret.arg.col[v])

\* C8: a load, by institute code or by institute name, opens the file
\* <root>/<institute>/<float id>/<float id>_prof.nc or ends with
\* NetCDF4FileNotFoundError carrying that path, and with no other error.
C8_OpensOrNotFound ==
  ret.op \in {"load_from_inst_code", "load_from_inst"}
    => /\ ret.exc \in {"none", "NetCDF4FileNotFoundError"}
       /\ ret.value =
            RootPath \o "/"
            \o (IF ret.op = "load_from_inst_code" THEN _dac[ret.arg[1]] ELSE ret.arg[1])
            \o "/" \o ToString(ret.arg[2]) \o "/" \o ToString(ret.arg[2]) \o "_prof.nc"
       /\ ret.exc = "none" <=> (ret.value \in DOMAIN fs /\ fs[ret.value] # "directory")

\* C9: the recorded shape agrees with the table wrapped: 'point' exactly when
\* the table has the dimension index and no N_PROF, 'profile' exactly when it
\* has N_PROF; so no point table is refused by point2profile() or cast_types().
C9_ShapeAgrees ==
  /\ _type = "point" <=> ("index" \in DOMAIN _obj.dims /\ "N_PROF" \notin DOMAIN _obj.dims)
  /\ _type = "profile" <=> "N_PROF" \in DOMAIN _obj.dims
  /\ (ret.op \in {"point2profile", "cast_types"} /\ ret.exc = "InvalidDatasetStructure")
       => "index" \notin DOMAIN ret.arg.dims

\* C10: point2profile() leaves the table it is called on as it was: the same
\* columns and the same attributes after the call as before it.
C10_InputUnchanged ==
  (ret.op = "point2profile" /\ ret.exc = "none")
  => /\ DOMAIN _obj.col = DOMAIN ret.arg.col
     /\ _obj.data_vars = ret.arg.data_vars
     /\ _obj.attrs = ret.arg.attrs

====
